---------------------------- MODULE Spec2Model ----------------------------
(***************************************************************************)
(* A model of WeatherPredictor (src/src/weather_prediction.py).            *)
(*                                                                         *)
(* Numbers.  Every real quantity of the program (temperatures, humidity,   *)
(* features, noise) is a fixed-point integer in thousandths: 25.0 is       *)
(* 25000.  sin and cos are tables of the values the program computes,      *)
(* rounded to thousandths.                                                 *)
(*                                                                         *)
(* Time.  A datetime is the number of whole hours since 2023-01-01 00:00;  *)
(* minutes and seconds never reach month, day, hour or the formatted date  *)
(* and are left out.                                                       *)
(*                                                                         *)
(* Libraries.  StandardScaler is modelled numerically (mean, population    *)
(* standard deviation, zero deviation replaced by 1).  A fitted regressor  *)
(* is a deterministic function of its training rows (random_state=42): it  *)
(* is modelled as the training rows it memorised, predicting the target of *)
(* the nearest one.  numpy's global generator is a linear congruential     *)
(* generator whose seed is chosen by the environment.  train_test_split    *)
(* is a shuffle that depends only on the row count and random_state.       *)
(***************************************************************************)
EXTENDS Integers, Sequences, FiniteSets, TLC

VARIABLES
    clock,           \* datetime.now(), in hours since the epoch
    np_random,       \* state of numpy's global random generator
    scaler,          \* self.scaler
    temp_model,      \* self.temp_model
    humidity_model,  \* self.humidity_model
    files,           \* the joblib files written by train_model
    script,          \* thread -> the calls that thread makes on the predictor
    pc,              \* thread -> position in the method it runs
    frame,           \* thread -> local variables of the running method
    train_calls      \* number of train_model calls started so far

vars == <<clock, np_random, scaler, temp_model, humidity_model, files,
          script, pc, frame, train_calls>>

---------------------------------------------------------------------------
(* Bounds of the model *)

\* predict_weather is called with days in 0..MaxDays
MaxDays == 2
\* the program synthesises 365 days of hourly history; the model a span of
\* HistorySpanHours hours (HistorySpanHours + 1 rows, both ends included)
HistorySpanHours == 5
\* train_model is called at most MaxTrainRuns times
MaxTrainRuns == 2

---------------------------------------------------------------------------
(* Program constants *)

FallbackBaseTemperature == 25000
HoursPerDay == 24
TemperatureCorrection == 3000
RandomState == 42

None == "None"

---------------------------------------------------------------------------
(* Arithmetic helpers *)

Abs(x) == IF x < 0 THEN 0 - x ELSE x

Min(S) == CHOOSE x \in S : \A y \in S : x <= y

RECURSIVE SumSeq(_)
SumSeq(s) == IF s = <<>> THEN 0 ELSE Head(s) + SumSeq(Tail(s))

\* largest r with r * r <= v, by bisection on lo..hi
RECURSIVE IsqrtIn(_, _, _)
IsqrtIn(v, lo, hi) ==
    IF lo >= hi THEN lo
    ELSE LET mid == (lo + hi + 1) \div 2
         IN  IF mid * mid <= v THEN IsqrtIn(v, mid, hi)
                               ELSE IsqrtIn(v, lo, mid - 1)

Isqrt(v) == IsqrtIn(v, 0, 46340)

\* round(x, 1): x in thousandths to the nearest tenth, ties to the even tenth
Round1(x) ==
    LET q == x \div 100
        r == x % 100
    IN  IF r < 50 THEN q * 100
        ELSE IF r > 50 THEN (q + 1) * 100
        ELSE IF q % 2 = 0 THEN q * 100 ELSE (q + 1) * 100

\* np.clip(x, lo, hi)
ClipNoUpper(x, lo, hi) == IF x < lo THEN lo ELSE x

Clip(x, lo, hi) == IF x < lo THEN lo ELSE IF x > hi THEN hi ELSE x

---------------------------------------------------------------------------
(* datetime *)

IsLeap(y) == (y % 4 = 0 /\ y % 100 /= 0) \/ y % 400 = 0

DaysInYear(y) == IF IsLeap(y) THEN 366 ELSE 365

DaysInMonth(y, m) ==
    IF m = 2 THEN (IF IsLeap(y) THEN 29 ELSE 28)
    ELSE IF m \in {4, 6, 9, 11} THEN 30 ELSE 31

RECURSIVE MonthStep(_, _, _)
MonthStep(y, m, n) ==
    IF n < DaysInMonth(y, m) THEN [year |-> y, month |-> m, day |-> n + 1]
    ELSE MonthStep(y, m + 1, n - DaysInMonth(y, m))

RECURSIVE YearStep(_, _)
YearStep(y, n) ==
    IF n < DaysInYear(y) THEN MonthStep(y, 1, n)
    ELSE YearStep(y + 1, n - DaysInYear(y))

\* the calendar date of day number n (0 is 2023-01-01)
Ord2Ymd(n) == YearStep(2023, n)

\* the fields of a datetime given in hours since the epoch
DateTime(h) == [year |-> Ord2Ymd(h \div 24).year,
                month |-> Ord2Ymd(h \div 24).month,
                day |-> Ord2Ymd(h \div 24).day,
                hour |-> h % 24]

\* the day number of a calendar date: the inverse of Ord2Ymd
RECURSIVE DaysBeforeYear(_)
DaysBeforeYear(y) ==
    IF y <= 2023 THEN 0 ELSE DaysBeforeYear(y - 1) + DaysInYear(y - 1)

RECURSIVE DaysBeforeMonth(_, _)
DaysBeforeMonth(y, m) ==
    IF m <= 1 THEN 0 ELSE DaysBeforeMonth(y, m - 1) + DaysInMonth(y, m - 1)

Ymd2Ord(y, m, d) == DaysBeforeYear(y) + DaysBeforeMonth(y, m) + (d - 1)

\* hours since the epoch of year-month-day hour:00
At(y, m, d, hh) == Ymd2Ord(y, m, d) * 24 + hh

Digit == <<"0", "1", "2", "3", "4", "5", "6", "7", "8", "9">>

DigitOf(n) == Digit[(n % 10) + 1]

\* strftime('%Y-%m-%d'): the ten characters of the date
Strftime(h) ==
    LET t == DateTime(h)
    IN  << DigitOf(t.year \div 1000), DigitOf(t.year \div 100),
           DigitOf(t.year \div 10), DigitOf(t.year), "-",
           DigitOf(t.month \div 10), DigitOf(t.month), "-",
           DigitOf(t.day \div 10), DigitOf(t.day) >>

---------------------------------------------------------------------------
(* Trigonometry, in thousandths *)

\* sin(2 pi k / 12) and cos(2 pi k / 12) for k = 0..12
Sin12 == <<0, 500, 866, 1000, 866, 500, 0, -500, -866, -1000, -866, -500, 0>>
Cos12 == <<1000, 866, 500, 0, -500, -866, -1000, -866, -500, 0, 500, 866, 1000>>
\* sin(2 pi k / 24) for k = 0..23
Sin24 == <<0, 259, 500, 707, 866, 966, 1000, 966, 866, 707, 500, 259, 0,
           -259, -500, -707, -866, -966, -1000, -966, -866, -707, -500, -259>>
\* sin(2 pi k / 31) and cos(2 pi k / 31) for k = 1..31
Sin31 == <<201, 394, 571, 725, 849, 938, 988, 999, 968, 898, 791, 651, 485,
           299, 101, -101, -299, -485, -651, -791, -898, -968, -999, -988,
           -938, -849, -725, -571, -394, -201, 0>>
Cos31 == <<980, 919, 821, 689, 529, 347, 151, -51, -251, -440, -612, -759,
           -874, -954, -995, -995, -954, -874, -759, -612, -440, -251, -51,
           151, 347, 529, 689, 821, 919, 980, 1000>>

\* _create_features(date)
CreateFeatures(h) ==
    LET t == DateTime(h)
    IN  << t.month * 1000, t.day * 1000, t.hour * 1000,
           Sin12[t.month + 1], Cos12[t.month + 1],
           Sin31[t.day], Cos31[t.day] >>

---------------------------------------------------------------------------
(* numpy's global random generator *)

\* the generator's next state
NextRandom(s) == (s * 25173 + 13849) % 65536

\* quantiles of the standard normal distribution the model draws from
StdNormal == <<-8000, -1000, 0, 1000, 8000>>

\* np.random.normal(0, sigma), read off generator state s
Normal(s, sigma) == sigma * StdNormal[((s \div 64) % Len(StdNormal)) + 1]

---------------------------------------------------------------------------
(* sklearn.preprocessing.StandardScaler *)

UnfittedScaler == [fitted |-> FALSE, run |-> 0, mean |-> <<>>, scale |-> <<>>]

Column(X, j) == [r \in 1..Len(X) |-> X[r][j]]

Mean(col) == SumSeq(col) \div Len(col)

Variance(col) ==
    LET m == Mean(col)
    IN  SumSeq([r \in 1..Len(col) |-> (col[r] - m) * (col[r] - m)]) \div Len(col)

\* the standard deviation, and 1.0 where it is zero
ScaleOf(col) ==
    LET sd == Isqrt(Variance(col))
    IN  IF sd = 0 THEN 1000 ELSE sd

\* StandardScaler.fit(X), by training run `run`
ScalerFit(X, run) ==
    [fitted |-> TRUE, run |-> run,
     mean  |-> [j \in 1..7 |-> Mean(Column(X, j))],
     scale |-> [j \in 1..7 |-> ScaleOf(Column(X, j))]]

\* StandardScaler.transform of one feature row
ScalerTransform(sc, x) ==
    [j \in 1..7 |-> ((x[j] - sc.mean[j]) * 1000) \div sc.scale[j]]

---------------------------------------------------------------------------
(* sklearn regressors: RandomForestRegressor, GradientBoostingRegressor *)

UnfittedModel == [fitted |-> FALSE, run |-> 0, X |-> <<>>, y |-> <<>>]

\* model.fit(X, y), by training run `run`
ModelFit(X, y, run) == [fitted |-> TRUE, run |-> run, X |-> X, y |-> y]

Distance(a, b) == SumSeq([j \in 1..7 |-> Abs(a[j] - b[j])])

\* model.predict(x)[0]: the target of the nearest training row
ModelPredict(m, x) ==
    LET d    == [r \in 1..Len(m.X) |-> Distance(m.X[r], x)]
        best == Min({d[r] : r \in 1..Len(m.X)})
        k    == Min({r \in 1..Len(m.X) : d[r] = best})
    IN  m.y[k]

---------------------------------------------------------------------------
(* sklearn.model_selection.train_test_split *)

RemoveAt(s, k) == SubSeq(s, 1, k - 1) \o SubSeq(s, k + 1, Len(s))

RECURSIVE Permute(_, _)
Permute(s, g) ==
    IF s = <<>> THEN <<>>
    ELSE LET g2 == NextRandom(g)
             k  == ((g2 \div 64) % Len(s)) + 1
         IN  <<s[k]>> \o Permute(RemoveAt(s, k), g2)

\* the shuffled row numbers 1..n for a given random_state
Permutation(n, random_state) == Permute([r \in 1..n |-> r], random_state)

\* ceil(0.2 * n)
NumTest(n) == (n + 4) \div 5

\* train_test_split(..., test_size=0.2, random_state=...), as the row
\* numbers it selects, in the order it returns them
TrainTestSplit(n, random_state) ==
    LET p == Permutation(n, random_state)
    IN  [train |-> SubSeq(p, NumTest(n) + 1, n),
         test  |-> SubSeq(p, 1, NumTest(n))]

\* the rows of array a selected by the row numbers idx
Take(a, idx) == [r \in 1..Len(idx) |-> a[idx[r]]]

\* lines 94-96: the split that yields X_train, X_test and the temperatures
TemperatureSplit(n) == TrainTestSplit(n, RandomState)

HumiditySplitOtherSeed(n) == TrainTestSplit(n, RandomState + 1)

\* lines 97-99: the split that yields the humidities
HumiditySplit(n) == TrainTestSplit(n, RandomState)

---------------------------------------------------------------------------
(* _predict_weather_event *)

PredictWeatherEventReordered(temp, humidity) ==
    IF humidity > 80000 THEN "Heavy Rainfall Expected"
    ELSE IF temp > 35000 /\ humidity < 30000 THEN "Heat Wave Warning"
    ELSE IF humidity < 20000 THEN "Dry Weather Warning"
    ELSE IF temp < 15000 THEN "Cold Weather Alert"
    ELSE IF temp > 30000 /\ humidity > 70000 THEN "High Humidity Warning"
    ELSE None

PredictWeatherEvent(temp, humidity) ==
    IF temp > 35000 /\ humidity < 30000 THEN "Heat Wave Warning"
    ELSE IF humidity > 80000 THEN "Heavy Rainfall Expected"
    ELSE IF temp < 15000 THEN "Cold Weather Alert"
    ELSE IF humidity < 20000 THEN "Dry Weather Warning"
    ELSE IF temp > 30000 /\ humidity > 70000 THEN "High Humidity Warning"
    ELSE None

---------------------------------------------------------------------------
(* get_current_weather and _get_base_temperature *)

\* the values get_current_weather reads out of the response
Fields == {"temp", "humidity", "pressure", "wind_speed", "description"}

\* a JSON value found at main.temp: a number, or something else
Number(v) == [num |-> TRUE, v |-> v]
NotANumber == [num |-> FALSE, v |-> 0]

ResponseTemperatures == {22300, 38200}

\* what requests.get can come back with: an exception, or a response whose
\* body is or is not JSON and holds some of the fields
Replies ==
    {[kind |-> "connection_error", json |-> FALSE, fields |-> {}, temp |-> NotANumber]}
    \cup {[kind |-> "response", json |-> FALSE, fields |-> {}, temp |-> NotANumber]}
    \cup {[kind |-> "response", json |-> TRUE, fields |-> f, temp |-> NotANumber] :
             f \in SUBSET Fields}
    \cup {[kind |-> "response", json |-> TRUE, fields |-> f \cup {"temp"},
           temp |-> Number(v)] : f \in SUBSET Fields, v \in ResponseTemperatures}

NoOutcome == [raised |-> FALSE, error |-> None, value |-> [temp |-> NotANumber]]

Raise(e) == [raised |-> TRUE, error |-> e, value |-> [temp |-> NotANumber]]

\* lines 155-165: the dictionary returned, or the exception raised; only
\* 'temp' of the dictionary is ever read
GetCurrentWeather(reply) ==
    IF reply.kind = "connection_error" THEN Raise("ConnectionError")
    ELSE IF ~reply.json THEN Raise("JSONDecodeError")
    ELSE IF reply.fields /= Fields THEN Raise("KeyError")
    ELSE [raised |-> FALSE, error |-> None, value |-> [temp |-> reply.temp]]

GetBaseTemperatureNoFallback(outcome) == outcome.value.temp

\* lines 75-79: the looked-up temperature, or 25.0 on any exception
GetBaseTemperature(outcome) ==
    IF outcome.raised THEN Number(FallbackBaseTemperature)
    ELSE outcome.value.temp

---------------------------------------------------------------------------
(* Threads and their local variables *)

Threads == DOMAIN script

\* a call of a public method, with the forecast horizon where it takes one
TrainModelCall == [op |-> "train_model", days |-> 0]
PredictWeatherCall(days) == [op |-> "predict_weather", days |-> days]

\* the local variables of train_model / get_historical_data and of
\* predict_weather; `run', `lookup', `offsets' and `used' are history
\* variables: the training run's number, the outcome of the call of
\* get_current_weather, the hour offsets at which records were appended, and
\* the training runs whose scaler and models produced the current hour's
\* values
EmptyFrame ==
    [op |-> None, error |-> None, lookup |-> NoOutcome,
     \* train_model
     run |-> 0, dates |-> <<>>, base_temp |-> NotANumber, df |-> <<>>,
     X_scaled |-> <<>>, temp_split |-> [train |-> <<>>, test |-> <<>>],
     humidity_split |-> [train |-> <<>>, test |-> <<>>],
     score |-> [rows |-> <<>>, ss_res |-> 0, ss_tot |-> 0],
     \* predict_weather
     days |-> 0, i |-> 0, current_date |-> 0, predictions |-> <<>>,
     offsets |-> <<>>, features_scaled |-> <<>>, temp_pred |-> 0,
     humidity_pred |-> 0, event |-> None,
     used |-> [scaler |-> 0, temp_model |-> 0, humidity_model |-> 0]]

\* pd.date_range(start=now - span, end=now, freq='H')
DateRange(now) ==
    [k \in 1..(HistorySpanHours + 1) |-> now - HistorySpanHours + (k - 1)]

\* lines 50-69: one observation of get_historical_data
Observation(date, base_temp, noise_t, noise_h) ==
    LET t             == DateTime(date)
        season_factor == Sin12[(t.month - 1) + 1]
        daily_factor  == Sin24[t.hour + 1]
        temp          == base_temp + 5 * season_factor + 3 * daily_factor + noise_t
        humidity      == Clip(60000 - (temp - base_temp) + noise_h, 30000, 90000)
    IN  [date |-> date, temperature |-> temp, humidity |-> humidity,
         features |-> CreateFeatures(date)]

FeatureMatrix(df) == [r \in 1..Len(df) |-> df[r].features]
TemperatureTargets(df) == [r \in 1..Len(df) |-> df[r].temperature]
HumidityTargets(df) == [r \in 1..Len(df) |-> df[r].humidity]

\* range(days * 24)
StepCountOneMore(days) == days * HoursPerDay + 1

StepCount(days) == days * HoursPerDay

\* where the loop of predict_weather goes at offset i
LoopPc(i, days) == IF i < StepCount(days) THEN "transform" ELSE "returned"

ForecastRecordUncorrected(date, temp_pred, humidity_pred, event) ==
    [date |-> Strftime(date), temperature |-> Round1(temp_pred),
     humidity |-> Round1(humidity_pred), event |-> event]

\* lines 130-135: the dictionary appended to predictions
ForecastRecord(date, temp_pred, humidity_pred, event) ==
    [date |-> Strftime(date), temperature |-> Round1(temp_pred - TemperatureCorrection),
     humidity |-> Round1(humidity_pred), event |-> event]

SetFrame(t, f) == frame' = [frame EXCEPT ![t] = f]
Goto(t, label) == pc' = [pc EXCEPT ![t] = label]

UNCHANGED_predictor == UNCHANGED <<scaler, temp_model, humidity_model, files>>
UNCHANGED_env == UNCHANGED <<clock, np_random, script>>

---------------------------------------------------------------------------
(* train_model *)

\* line 83, 40-42: train_model is called; get_historical_data computes dates
CallTrainModel(t) ==
    /\ pc[t] = "idle"
    /\ TrainModelCall \in script[t]
    /\ train_calls < MaxTrainRuns
    /\ train_calls' = train_calls + 1
    /\ SetFrame(t, [EmptyFrame EXCEPT !.op = "train_model",
                                      !.run = train_calls + 1,
                                      !.dates = DateRange(clock)])
    /\ Goto(t, "requests_get")
    /\ UNCHANGED_predictor /\ UNCHANGED_env

\* lines 48-69: one iteration of the loop over dates
SynthesizeRow(t) ==
    /\ pc[t] = "synthesize"
    /\ LET f  == frame[t]
           k  == Len(f.df) + 1
           g1 == NextRandom(np_random)
           g2 == NextRandom(g1)
       IN  IF ~f.base_temp.num
           THEN \* base_temp + 5 * season_factor raises TypeError
                /\ SetFrame(t, [f EXCEPT !.error = "TypeError"])
                /\ Goto(t, "raised")
                /\ UNCHANGED np_random
           ELSE /\ SetFrame(t, [f EXCEPT !.df = Append(f.df,
                        Observation(f.dates[k], f.base_temp.v,
                                    Normal(g1, 1), Normal(g2, 5)))])
                /\ np_random' = g2
                /\ Goto(t, IF k = Len(f.dates) THEN "fit_scaler" ELSE "synthesize")
    /\ UNCHANGED_predictor /\ UNCHANGED <<clock, script, train_calls>>

\* lines 85-91: self.scaler.fit_transform(X)
FitScaler(t) ==
    /\ pc[t] = "fit_scaler"
    /\ LET f  == frame[t]
           X  == FeatureMatrix(f.df)
           sc == ScalerFit(X, f.run)
       IN  /\ scaler' = sc
           /\ SetFrame(t, [f EXCEPT !.X_scaled =
                  [r \in 1..Len(X) |-> ScalerTransform(sc, X[r])]])
    /\ Goto(t, "split")
    /\ UNCHANGED <<temp_model, humidity_model, files, train_calls>>
    /\ UNCHANGED_env

\* lines 94-99: the two calls of train_test_split
SplitData(t) ==
    /\ pc[t] = "split"
    /\ LET f == frame[t]
       IN  SetFrame(t, [f EXCEPT !.temp_split = TemperatureSplit(Len(f.X_scaled)),
                                 !.humidity_split = HumiditySplit(Len(f.X_scaled))])
    /\ Goto(t, "fit_temp")
    /\ UNCHANGED train_calls /\ UNCHANGED_predictor /\ UNCHANGED_env

\* line 102: self.temp_model.fit(X_train, y_temp_train)
FitTempModel(t) ==
    /\ pc[t] = "fit_temp"
    /\ LET f == frame[t]
       IN  temp_model' = ModelFit(Take(f.X_scaled, f.temp_split.train),
                                  Take(TemperatureTargets(f.df), f.temp_split.train),
                                  f.run)
    /\ Goto(t, "fit_humidity")
    /\ UNCHANGED <<scaler, humidity_model, files, frame, train_calls>>
    /\ UNCHANGED_env

\* line 103: self.humidity_model.fit(X_train, y_humidity_train)
FitHumidityModel(t) ==
    /\ pc[t] = "fit_humidity"
    /\ LET f == frame[t]
       IN  humidity_model' = ModelFit(Take(f.X_scaled, f.temp_split.train),
                                      Take(HumidityTargets(f.df), f.humidity_split.train),
                                      f.run)
    /\ Goto(t, "dump")
    /\ UNCHANGED <<scaler, temp_model, files, frame, train_calls>>
    /\ UNCHANGED_env

\* lines 106-108: joblib.dump of the two models and the scaler
DumpModels(t) ==
    /\ pc[t] = "dump"
    /\ files' = [temp_model |-> temp_model, humidity_model |-> humidity_model,
                 scaler |-> scaler]
    /\ Goto(t, "score")
    /\ UNCHANGED <<scaler, temp_model, humidity_model, frame, train_calls>>
    /\ UNCHANGED_env

\* line 110: self.temp_model.score(X_test, y_temp_test), the coefficient of
\* determination 1 - ss_res / ss_tot, kept as its two sums
ScoreModel(t) ==
    /\ pc[t] = "score"
    /\ LET f      == frame[t]
           X_test == Take(f.X_scaled, f.temp_split.test)
           y_test == Take(TemperatureTargets(f.df), f.temp_split.test)
           y_pred == [r \in 1..Len(X_test) |-> ModelPredict(temp_model, X_test[r])]
           y_mean == Mean(y_test)
           res    == [r \in 1..Len(y_test) |-> ((y_test[r] - y_pred[r]) \div 10)
                                                * ((y_test[r] - y_pred[r]) \div 10)]
           tot    == [r \in 1..Len(y_test) |-> ((y_test[r] - y_mean) \div 10)
                                                * ((y_test[r] - y_mean) \div 10)]
       IN  SetFrame(t, [f EXCEPT !.score = [rows |-> f.temp_split.test,
                                            ss_res |-> SumSeq(res),
                                            ss_tot |-> SumSeq(tot)]])
    /\ Goto(t, "returned")
    /\ UNCHANGED train_calls /\ UNCHANGED_predictor /\ UNCHANGED_env

---------------------------------------------------------------------------
(* get_current_weather, called by _get_base_temperature (line 76) inside a
   try, and by predict_weather (line 114) outside of one *)

\* lines 156-165 return or raise; then lines 77-79, or lines 115-117
RequestsGetCompletes(t, reply) ==
    /\ pc[t] = "requests_get"
    /\ LET f   == frame[t]
           out == GetCurrentWeather(reply)
       IN  IF f.op = "train_model"
           THEN /\ SetFrame(t, [f EXCEPT !.lookup = out,
                                         !.base_temp = GetBaseTemperature(out)])
                /\ Goto(t, "synthesize")
           ELSE IF out.raised
           THEN /\ SetFrame(t, [f EXCEPT !.lookup = out, !.error = out.error])
                /\ Goto(t, "raised")
           ELSE /\ SetFrame(t, [f EXCEPT !.lookup = out, !.current_date = clock])
                /\ Goto(t, LoopPc(0, f.days))
    /\ UNCHANGED train_calls /\ UNCHANGED_predictor /\ UNCHANGED_env

\* line 156: requests.get(url) is given no timeout; when the server stays
\* silent the call never comes back
RequestsGetBlocks(t) ==
    /\ pc[t] = "requests_get"
    /\ Goto(t, "blocked")
    /\ UNCHANGED <<frame, train_calls>> /\ UNCHANGED_predictor /\ UNCHANGED_env

---------------------------------------------------------------------------
(* predict_weather *)

\* line 112: predict_weather(city, days) is called
CallPredictWeather(t, days) ==
    /\ pc[t] = "idle"
    /\ PredictWeatherCall(days) \in script[t]
    /\ SetFrame(t, [EmptyFrame EXCEPT !.op = "predict_weather", !.days = days])
    /\ Goto(t, "requests_get")
    /\ UNCHANGED train_calls /\ UNCHANGED_predictor /\ UNCHANGED_env

\* lines 119-121: the features of hour i, scaled by self.scaler
TransformFeatures(t) ==
    /\ pc[t] = "transform"
    /\ LET f == frame[t]
       IN  IF ~scaler.fitted
           THEN /\ SetFrame(t, [f EXCEPT !.error = "NotFittedError"])
                /\ Goto(t, "raised")
           ELSE /\ SetFrame(t, [f EXCEPT
                      !.features_scaled =
                          ScalerTransform(scaler, CreateFeatures(f.current_date + f.i)),
                      !.used = [scaler |-> scaler.run, temp_model |-> 0,
                                humidity_model |-> 0]])
                /\ Goto(t, "predict_temp")
    /\ UNCHANGED train_calls /\ UNCHANGED_predictor /\ UNCHANGED_env

\* line 123: self.temp_model.predict(features_scaled)[0]
PredictTemperature(t) ==
    /\ pc[t] = "predict_temp"
    /\ LET f == frame[t]
       IN  IF ~temp_model.fitted
           THEN /\ SetFrame(t, [f EXCEPT !.error = "NotFittedError"])
                /\ Goto(t, "raised")
           ELSE /\ SetFrame(t, [f EXCEPT
                      !.temp_pred = ModelPredict(temp_model, f.features_scaled),
                      !.used.temp_model = temp_model.run])
                /\ Goto(t, "predict_humidity")
    /\ UNCHANGED train_calls /\ UNCHANGED_predictor /\ UNCHANGED_env

\* lines 124-135: the humidity prediction, the event, the record appended
\* when i is a multiple of 24, and the step to the next hour
PredictHumidity(t) ==
    /\ pc[t] = "predict_humidity"
    /\ LET f == frame[t]
       IN  IF ~humidity_model.fitted
           THEN /\ SetFrame(t, [f EXCEPT !.error = "NotFittedError"])
                /\ Goto(t, "raised")
           ELSE LET humidity_pred == ModelPredict(humidity_model, f.features_scaled)
                    event  == PredictWeatherEvent(f.temp_pred, humidity_pred)
                    emit   == f.i % HoursPerDay = 0
                    record == ForecastRecord(f.current_date + f.i, f.temp_pred,
                                             humidity_pred, event)
                IN  /\ SetFrame(t, [f EXCEPT
                          !.humidity_pred = humidity_pred,
                          !.event = event,
                          !.used.humidity_model = humidity_model.run,
                          !.predictions = IF emit THEN Append(@, record) ELSE @,
                          !.offsets = IF emit THEN Append(@, f.i) ELSE @,
                          !.i = f.i + 1])
                    /\ Goto(t, LoopPc(f.i + 1, f.days))
    /\ UNCHANGED train_calls /\ UNCHANGED_predictor /\ UNCHANGED_env

---------------------------------------------------------------------------
(* The caller *)

\* the method has returned or raised; the caller takes the result
Return(t) ==
    /\ pc[t] \in {"returned", "raised"}
    /\ frame[t].op \in {"train_model", "predict_weather"}
    /\ SetFrame(t, EmptyFrame)
    /\ Goto(t, "idle")
    /\ UNCHANGED train_calls /\ UNCHANGED_predictor /\ UNCHANGED_env

---------------------------------------------------------------------------
(* Specifications *)

\* the moments the model starts at: before a month's end in a common and in
\* a leap year, at a year's end, just after one, before a 30-day month's end
ClockStarts ==
    {At(2023, 2, 27, 13), At(2023, 12, 31, 23), At(2024, 1, 1, 2),
     At(2024, 2, 28, 0), At(2024, 4, 29, 23)}

Seeds == {9, 555}

InitPredictor ==
    /\ scaler = UnfittedScaler
    /\ temp_model = UnfittedModel
    /\ humidity_model = UnfittedModel
    /\ files = [temp_model |-> UnfittedModel, humidity_model |-> UnfittedModel,
                scaler |-> UnfittedScaler]
    /\ train_calls = 0

\* one thread drives the predictor, as the script at the end of the file does
Init ==
    /\ clock \in ClockStarts
    /\ np_random \in Seeds
    /\ InitPredictor
    /\ script = [t \in {"main"} |->
                    {TrainModelCall} \cup {PredictWeatherCall(d) : d \in 0..MaxDays}]
    /\ pc = [t \in {"main"} |-> "idle"]
    /\ frame = [t \in {"main"} |-> EmptyFrame]

Next ==
    \/ \E t \in Threads : CallTrainModel(t)
    \/ \E t \in Threads : \E reply \in Replies : RequestsGetCompletes(t, reply)
    \/ \E t \in Threads : RequestsGetBlocks(t)
    \/ \E t \in Threads : SynthesizeRow(t)
    \/ \E t \in Threads : FitScaler(t)
    \/ \E t \in Threads : SplitData(t)
    \/ \E t \in Threads : FitTempModel(t)
    \/ \E t \in Threads : FitHumidityModel(t)
    \/ \E t \in Threads : DumpModels(t)
    \/ \E t \in Threads : ScoreModel(t)
    \/ \E t \in Threads : \E days \in 0..MaxDays : CallPredictWeather(t, days)
    \/ \E t \in Threads : TransformFeatures(t)
    \/ \E t \in Threads : PredictTemperature(t)
    \/ \E t \in Threads : PredictHumidity(t)
    \/ \E t \in Threads : Return(t)

Spec == Init /\ [][Next]_vars

\* a hosting process: one thread serves forecasts while another retrains
\* the same predictor
ConcInit ==
    /\ clock = At(2024, 2, 28, 0)
    /\ np_random = 2024
    /\ InitPredictor
    /\ script = [t \in {"forecaster", "retrainer"} |->
                    IF t = "forecaster" THEN {PredictWeatherCall(1)}
                                        ELSE {TrainModelCall}]
    /\ pc = [t \in {"forecaster", "retrainer"} |-> "idle"]
    /\ frame = [t \in {"forecaster", "retrainer"} |-> EmptyFrame]

ConcSpec == ConcInit /\ [][Next]_vars

---------------------------------------------------------------------------
(* _predict_weather_event on its own *)

\* temperatures 0.0 .. 45.0 and humidities 0.0 .. 100.0 in steps of 0.5, and
\* the values a thousandth to either side of every threshold
TemperatureGrid ==
    {500 * k : k \in 0..90}
    \cup {th + d : th \in {15000, 30000, 35000}, d \in {-1, 1}}

HumidityGrid ==
    {500 * k : k \in 0..200}
    \cup {th + d : th \in {20000, 30000, 70000, 80000}, d \in {-1, 1}}

\* lines 139-151, called with the arguments held in the frame
ClassifyEvent(t) ==
    /\ pc[t] = "classify"
    /\ SetFrame(t, [frame[t] EXCEPT !.event =
           PredictWeatherEvent(frame[t].temp_pred, frame[t].humidity_pred)])
    /\ Goto(t, "returned")
    /\ UNCHANGED train_calls /\ UNCHANGED_predictor /\ UNCHANGED_env

ClassifyInit ==
    /\ clock = At(2024, 2, 28, 0)
    /\ np_random = 2024
    /\ InitPredictor
    /\ script = [t \in {"main"} |-> {}]
    /\ pc = [t \in {"main"} |-> "classify"]
    /\ \E temp \in TemperatureGrid, humidity \in HumidityGrid :
           frame = [t \in {"main"} |->
                       [EmptyFrame EXCEPT !.op = "_predict_weather_event",
                                          !.temp_pred = temp,
                                          !.humidity_pred = humidity]]

ClassifyNext == \E t \in Threads : ClassifyEvent(t)

ClassifySpec == ClassifyInit /\ [][ClassifyNext]_vars

---------------------------------------------------------------------------
(* C1: _predict_weather_event returns the label of the first rule, in the
   order 1..5, that matches, and None exactly when no rule matches *)

RuleLabel ==
    <<"Heat Wave Warning", "Heavy Rainfall Expected", "Cold Weather Alert",
      "Dry Weather Warning", "High Humidity Warning">>

RuleMatches(k, temperature, humidity) ==
    CASE k = 1 -> temperature > 35000 /\ humidity < 30000
      [] k = 2 -> humidity > 80000
      [] k = 3 -> temperature < 15000
      [] k = 4 -> humidity < 20000
      [] k = 5 -> temperature > 30000 /\ humidity > 70000

FirstMatch(temperature, humidity) ==
    LET matching == {k \in 1..5 : RuleMatches(k, temperature, humidity)}
    IN  IF matching = {} THEN None ELSE RuleLabel[Min(matching)]

\* the six classifications the specification lists
ListedEvents ==
    {<<36000, 25000, "Heat Wave Warning">>, <<20000, 85000, "Heavy Rainfall Expected">>,
     <<10000, 50000, "Cold Weather Alert">>, <<25000, 15000, "Dry Weather Warning">>,
     <<31000, 75000, "High Humidity Warning">>, <<20000, 50000, None>>}

Classified(t) == pc[t] = "returned" /\ frame[t].op = "_predict_weather_event"

\* C1: every classification is the first matching rule's label, None exactly
\* when none matches, and the six listed classifications come out as listed
C1_FirstMatchingRule ==
    \A t \in Threads :
        Classified(t) =>
            /\ frame[t].event = FirstMatch(frame[t].temp_pred, frame[t].humidity_pred)
            /\ (frame[t].event = None) <=>
                   (\A k \in 1..5 : ~RuleMatches(k, frame[t].temp_pred,
                                                 frame[t].humidity_pred))
            /\ \A e \in ListedEvents :
                   (frame[t].temp_pred = e[1] /\ frame[t].humidity_pred = e[2])
                       => frame[t].event = e[3]

\* a cold and dry pair, matched by rules 3 and 4, classified by rule 3
C1_Witness ==
    \E t \in Threads :
        /\ Classified(t)
        /\ frame[t].temp_pred = 10000 /\ frame[t].humidity_pred = 15000
        /\ frame[t].event = "Cold Weather Alert"

---------------------------------------------------------------------------
(* C2: a successful predict_weather(days) steps through days * 24 hourly
   offsets and returns days records, appended at the offsets 0, 24, 48, ...
   in order, the k-th dated k days after the start date *)

\* the calendar date after a calendar date
NextDay(d) ==
    IF d.day < DaysInMonth(d.year, d.month)
    THEN [d EXCEPT !.day = d.day + 1]
    ELSE IF d.month < 12
    THEN [d EXCEPT !.month = d.month + 1, !.day = 1]
    ELSE [year |-> d.year + 1, month |-> 1, day |-> 1]

RECURSIVE PlusDays(_, _)
PlusDays(d, k) == IF k = 0 THEN d ELSE NextDay(PlusDays(d, k - 1))

TwoDigits(n) == <<DigitOf(n \div 10), DigitOf(n)>>

\* a calendar date written year-month-day
IsoDate(d) ==
    <<DigitOf(d.year \div 1000), DigitOf(d.year \div 100), DigitOf(d.year \div 10),
      DigitOf(d.year)>> \o <<"-">> \o TwoDigits(d.month) \o <<"-">> \o TwoDigits(d.day)

StartDate(t) ==
    [year |-> DateTime(frame[t].current_date).year,
     month |-> DateTime(frame[t].current_date).month,
     day |-> DateTime(frame[t].current_date).day]

Forecasted(t) == pc[t] = "returned" /\ frame[t].op = "predict_weather"

\* C2: the records of a returned forecast are one per day of the horizon,
\* taken at the multiples of 24, dated on consecutive days from the start
C2_OneRecordPerDay ==
    \A t \in Threads :
        Forecasted(t) =>
            /\ frame[t].i = frame[t].days * 24
            /\ Len(frame[t].predictions) = frame[t].days
            /\ frame[t].offsets = [k \in 1..frame[t].days |-> 24 * (k - 1)]
            /\ \A k \in 1..Len(frame[t].predictions) :
                   frame[t].predictions[k].date = IsoDate(PlusDays(StartDate(t), k - 1))
            /\ \A k \in 1..(Len(frame[t].predictions) - 1) :
                   frame[t].predictions[k].date /= frame[t].predictions[k + 1].date

\* a forecast of two days or more, started at 23:00 on the last day of a year
C2_Witness ==
    \E t \in Threads :
        /\ Forecasted(t)
        /\ frame[t].days >= 2
        /\ DateTime(frame[t].current_date).hour = 23
        /\ frame[t].predictions[1].date = <<"2", "0", "2", "3", "-", "1", "2", "-", "3", "1">>
        /\ frame[t].predictions[2].date = <<"2", "0", "2", "4", "-", "0", "1", "-", "0", "1">>

---------------------------------------------------------------------------
(* C3: when get_current_weather raises inside _get_base_temperature, nothing
   is raised to train_model: the base temperature is 25.0 and
   get_historical_data returns one observation for every hour of its range;
   when it returns, the base temperature is the temperature it returned *)

Training(t) == frame[t].op = "train_model"

\* the base temperature has been assigned
HasBaseTemperature(t) == Training(t) /\ pc[t] \notin {"idle", "requests_get", "blocked"}

\* get_historical_data has returned
Synthesized(t) ==
    Training(t) /\ pc[t] \in {"fit_scaler", "split", "fit_temp", "fit_humidity",
                              "dump", "score", "returned"}

\* C3: a failed lookup gives base temperature 25.0 and a complete synthesis;
\* a successful one gives the looked-up temperature
C3_FallbackOnLookupFailure ==
    \A t \in Threads :
        /\ (HasBaseTemperature(t) /\ frame[t].lookup.raised) =>
               /\ frame[t].base_temp = Number(25000)
               /\ pc[t] /= "raised"
               /\ Len(frame[t].df) <= HistorySpanHours + 1
               /\ \A r \in 1..Len(frame[t].df) :
                      frame[t].df[r].date = clock - HistorySpanHours + (r - 1)
        /\ (Synthesized(t) /\ frame[t].lookup.raised) =>
               Len(frame[t].df) = HistorySpanHours + 1
        /\ (HasBaseTemperature(t) /\ ~frame[t].lookup.raised) =>
               frame[t].base_temp = frame[t].lookup.value.temp

\* train_model has returned although the response lacked a field
C3_Witness ==
    \E t \in Threads :
        /\ Training(t) /\ pc[t] = "returned"
        /\ frame[t].lookup.raised /\ frame[t].lookup.error = "KeyError"
        /\ frame[t].base_temp = Number(25000)
        /\ Len(frame[t].df) = HistorySpanHours + 1

---------------------------------------------------------------------------
(* C4: a failure of the current-weather lookup is never raised to the caller
   of train_model or of predict_weather *)

\* train_model has completed: its files are written
Trained == files.scaler.fitted /\ files.temp_model.fitted /\ files.humidity_model.fitted

\* C4: after a completed train_model, no call ends with the exception of a
\* failed lookup
C4_LookupFailureNeverSurfaced ==
    \A t \in Threads :
        (Trained /\ frame[t].lookup.raised) => pc[t] /= "raised"

---------------------------------------------------------------------------
(* C5: predict_weather on a predictor that train_model never completed on
   raises and returns nothing *)

\* C5: no predict_weather returns while the scaler or a model is unfitted
C5_UntrainedPredictRaises ==
    \A t \in Threads :
        (frame[t].op = "predict_weather"
            /\ ~(scaler.fitted /\ temp_model.fitted /\ humidity_model.fitted))
        => pc[t] /= "returned"

---------------------------------------------------------------------------
(* C6: a record holds the raw temperature prediction of its hour less 3, the
   raw humidity prediction of its hour, both rounded to a tenth, and the
   event of those two raw predictions *)

\* the hour the k-th record of thread t stands for
RecordHour(t, k) == frame[t].current_date + 24 * (k - 1)

\* what the predictor's scaler and models give for hour h
RawTemperature(h) ==
    ModelPredict(temp_model, ScalerTransform(scaler, CreateFeatures(h)))
RawHumidity(h) ==
    ModelPredict(humidity_model, ScalerTransform(scaler, CreateFeatures(h)))

\* C6: every record of a returned forecast is the corrected, rounded raw
\* prediction of its own hour with the event of the uncorrected predictions
C6_RecordFromRawPredictions ==
    \A t \in Threads :
        Forecasted(t) =>
            \A k \in 1..Len(frame[t].predictions) :
                LET rec == frame[t].predictions[k]
                    rt  == RawTemperature(RecordHour(t, k))
                    rh  == RawHumidity(RecordHour(t, k))
                IN  /\ rec.temperature = Round1(rt - 3000)
                    /\ rec.temperature % 100 = 0
                    /\ Abs(rt - 3000 - rec.temperature) <= 50
                    /\ rec.humidity = Round1(rh)
                    /\ Abs(rh - rec.humidity) <= 50
                    /\ rec.event = FirstMatch(rt, rh)

\* a returned forecast with a record that has no event, whose corrected
\* temperature would have raised a cold alert, and whose raw temperature is
\* not a whole tenth
C6_Witness ==
    \E t \in Threads :
        /\ Forecasted(t)
        /\ \E k \in 1..Len(frame[t].predictions) :
               LET rt == RawTemperature(RecordHour(t, k))
                   rh == RawHumidity(RecordHour(t, k))
               IN  /\ frame[t].predictions[k].event = None
                   /\ FirstMatch(rt - 3000, rh) = "Cold Weather Alert"
                   /\ rt % 100 /= 0

---------------------------------------------------------------------------
(* C7: no hour of a forecast uses a scaler and models of different training
   runs *)

\* C7: the models a forecast step reads come from the training run of the
\* scaler it read
C7_NoMixedTrainedState ==
    \A t \in Threads :
        frame[t].op = "predict_weather" =>
            /\ frame[t].used.temp_model \in {0, frame[t].used.scaler}
            /\ frame[t].used.humidity_model \in {0, frame[t].used.scaler}

---------------------------------------------------------------------------
(* C8: the lookup always ends, so that train_model terminates *)

\* some step of thread t
ThreadStep(t) ==
    \/ \E reply \in Replies : RequestsGetCompletes(t, reply)
    \/ SynthesizeRow(t)
    \/ FitScaler(t)
    \/ SplitData(t)
    \/ FitTempModel(t)
    \/ FitHumidityModel(t)
    \/ DumpModels(t)
    \/ ScoreModel(t)
    \/ Return(t)

\* C8: a train_model that has not ended can take a step: it never waits on
\* the remote source without end
C8_TrainModelNeverHangs ==
    \A t \in Threads :
        (Training(t) /\ pc[t] \notin {"returned", "raised"}) => ENABLED ThreadStep(t)

---------------------------------------------------------------------------
(* C9: every observation of get_historical_data has a humidity in [30, 90],
   the clamped value of 60 - (temperature - base_temperature) + noise *)

\* the values np.random.normal(0, 5) takes in the model
HumidityNoise == {5 * StdNormal[q] : q \in 1..Len(StdNormal)}

\* C9: the humidity is within bounds and is the clamped formula for some draw
C9_HumidityBound ==
    \A t \in Threads :
        \A r \in 1..Len(frame[t].df) :
            LET obs == frame[t].df[r]
                raw == 60000 - (obs.temperature - frame[t].base_temp.v)
            IN  /\ 30000 <= obs.humidity /\ obs.humidity <= 90000
                /\ \E n \in HumidityNoise :
                       \/ raw + n < 30000 /\ obs.humidity = 30000
                       \/ raw + n > 90000 /\ obs.humidity = 90000
                       \/ raw + n \in 30000..90000 /\ obs.humidity = raw + n

\* a synthesis with an observation clamped at 90, one clamped at 30 and one
\* left as computed
C9_Witness ==
    \E t \in Threads :
        /\ Synthesized(t)
        /\ \E r \in 1..Len(frame[t].df) : frame[t].df[r].humidity = 90000
        /\ \E r \in 1..Len(frame[t].df) : frame[t].df[r].humidity = 30000
        /\ \E r \in 1..Len(frame[t].df) :
               frame[t].df[r].humidity \in 30001..89999

---------------------------------------------------------------------------
(* C10: the two splits of train_model select the same rows in the same
   order, so the humidity model is fitted on feature rows and humidities of
   the same observations, and the temperature model is scored on rows that
   neither model was fitted on *)

Range(s) == {s[r] : r \in 1..Len(s)}

\* the splits have been taken
HasSplits(t) ==
    Training(t) /\ pc[t] \in {"fit_temp", "fit_humidity", "dump", "score", "returned"}

\* C10: equal splits, a humidity model fitted on matching rows, a score on
\* rows outside the training rows
C10_SplitsAligned ==
    \A t \in Threads :
        /\ HasSplits(t) =>
               /\ frame[t].humidity_split = frame[t].temp_split
               /\ Range(frame[t].temp_split.train) \cap Range(frame[t].temp_split.test) = {}
               /\ Range(frame[t].temp_split.train) \cup Range(frame[t].temp_split.test)
                      = 1..Len(frame[t].df)
               /\ Len(frame[t].temp_split.train) + Len(frame[t].temp_split.test)
                      = Len(frame[t].df)
        /\ (Training(t) /\ pc[t] \in {"dump", "score", "returned"}
                /\ humidity_model.run = frame[t].run) =>
               /\ Len(humidity_model.X) = Len(humidity_model.y)
               /\ \A r \in 1..Len(humidity_model.X) :
                      \E o \in 1..Len(frame[t].df) :
                          /\ humidity_model.X[r] = frame[t].X_scaled[o]
                          /\ humidity_model.y[r] = frame[t].df[o].humidity
        /\ (Training(t) /\ pc[t] = "returned") =>
               /\ frame[t].score.rows = frame[t].temp_split.test
               /\ Range(frame[t].score.rows) \cap Range(frame[t].temp_split.train) = {}
               /\ Range(frame[t].score.rows) \cap Range(frame[t].humidity_split.train) = {}

\* a completed training whose training rows are not in their original order
C10_Witness ==
    \E t \in Threads :
        /\ Training(t) /\ pc[t] = "returned"
        /\ humidity_model.run = frame[t].run
        /\ Len(frame[t].temp_split.test) >= 2
        /\ \E a, b \in 1..Len(frame[t].temp_split.train) :
               a < b /\ frame[t].temp_split.train[a] > frame[t].temp_split.train[b]
        /\ \E a, b \in 1..Len(frame[t].df) :
               a /= b /\ frame[t].df[a].humidity /= frame[t].df[b].humidity

=============================================================================
